---- MODULE Spec2Model ----
(***************************************************************************)
(* Model of terraform-provider-nats: the jwt provider function (both       *)
(* revisions of JwtFunction.Run), the jwt resource (UpdateJWT and its      *)
(* Create/Read/Update callers).                                            *)
(*                                                                         *)
(* Texts are sequences of byte values.  The nkeys text codec, ed25519 and  *)
(* SHA-512/256 are replaced by small stand-ins of the same shape (prefix   *)
(* byte, checksum, fixed-width digest); base64url, base32 and the JSON     *)
(* writer are computed byte by byte.                                       *)
(***************************************************************************)
EXTENDS Integers, Sequences, FiniteSets, TLC

\* ------------------------------------------------------------------ bounds
MaxTime == 2         \* the clock runs over 1..MaxTime
MaxCalls == 2        \* resource operations per behaviour

\* ------------------------------------------------------------------ bytes
Dot == <<46>>                                   \* "."
Q(s) == <<34>> \o s \o <<34>>                   \* a JSON string (no escapes needed here)

RECURSIVE SumOver(_, _, _)
\* the sum of s[lo..hi], by halves
SumOver(s, lo, hi) ==
    IF lo > hi THEN 0
    ELSE IF lo = hi THEN s[lo]
    ELSE LET mid == (lo + hi) \div 2
         IN  SumOver(s, lo, mid) + SumOver(s, mid + 1, hi)

RECURSIVE WSumOver(_, _, _)
\* the position-weighted sum of s[lo..hi], by halves
WSumOver(s, lo, hi) ==
    IF lo > hi THEN 0
    ELSE IF lo = hi THEN (lo * s[lo]) % 65536
    ELSE LET mid == (lo + hi) \div 2
         IN  (WSumOver(s, lo, mid) + WSumOver(s, mid + 1, hi)) % 65536

SumTo(s, i) == SumOver(s, 1, i)
WSumTo(s, i) == WSumOver(s, 1, i)

ByteAt(s, i) == IF i <= Len(s) THEN s[i] ELSE 0

\* 2^n for n in 0..16
Pow2(n) ==
    <<1, 2, 4, 8, 16, 32, 64, 128, 256, 512, 1024, 2048, 4096, 8192, 16384,
      32768, 65536>>[n + 1]

\* base64.RawURLEncoding alphabet: A-Z a-z 0-9 - _
UrlAlphabet(v) ==
    IF v < 26 THEN 65 + v
    ELSE IF v < 52 THEN 97 + (v - 26)
    ELSE IF v < 62 THEN 48 + (v - 52)
    ELSE IF v = 62 THEN 45 ELSE 95

\* base32.StdEncoding alphabet: A-Z 2-7
StdB32Alphabet(v) == IF v < 26 THEN 65 + v ELSE 50 + (v - 26)

\* the k-th output symbol (1-based) of an unpadded base-2^w encoding of d
Group(d, k, w) ==
    LET o == w * (k - 1)
        i == (o \div 8) + 1
        s == o % 8
        win == ByteAt(d, i) * 256 + ByteAt(d, i + 1)
    IN  (win \div Pow2(16 - w - s)) % Pow2(w)

EncLen(d, w) == (8 * Len(d) + w - 1) \div w

encodeToStringDotted(d) ==
    [k \in 1..EncLen(d, 6) |->
        LET v == Group(d, k, 6) IN IF v = 62 THEN 46 ELSE UrlAlphabet(v)]

encodeToString(d) == [k \in 1..EncLen(d, 6) |-> UrlAlphabet(Group(d, k, 6))]

b32Enc(d) == [k \in 1..EncLen(d, 5) |-> StdB32Alphabet(Group(d, k, 5))]

\* stand-in for sha512.New512_256: a fixed-width digest of the bytes
Sum512_256(j) ==
    LET a == WSumTo(j, Len(j))
        b == SumTo(j, Len(j))
    IN  <<a \div 256, a % 256, b % 256>>

\* ------------------------------------------------------------------ nkeys
\* A seed text is <<'S', prefix char, entropy digit, checksum>>, a public
\* identifier is <<prefix char, public digit, checksum>>.
Crc(s) == 97 + (WSumTo(s, Len(s)) % 26)

PrefixChar(p) ==
    CASE p = "Operator" -> 79
      [] p = "Account"  -> 65
      [] p = "User"     -> 85
      [] p = "Server"   -> 78
      [] OTHER          -> 63

\* nkeys.checkValidPublicPrefixByte
PrefixOfChar(c) ==
    CASE c = 79 -> "Operator"
      [] c = 65 -> "Account"
      [] c = 85 -> "User"
      [] c = 78 -> "Server"
      [] OTHER  -> "Unknown"

EncodeSeed(p, raw) ==
    LET b == <<83, PrefixChar(p), 48 + raw>> IN b \o <<Crc(b)>>

\* nkeys.DecodeSeed: checksum, seed prefix, public prefix
DecodeSeed(src) ==
    IF Len(src) /= 4 \/ src[4] /= Crc(SubSeq(src, 1, 3))
    THEN [err |-> "ErrInvalidChecksum", prefix |-> "Unknown", raw |-> 0]
    ELSE IF src[1] /= 83
    THEN [err |-> "ErrInvalidSeed", prefix |-> "Unknown", raw |-> 0]
    ELSE IF PrefixOfChar(src[2]) = "Unknown"
    THEN [err |-> "ErrInvalidPrefixByte", prefix |-> "Unknown", raw |-> 0]
    ELSE [err |-> "", prefix |-> PrefixOfChar(src[2]), raw |-> src[3] - 48]

NilKeyPair == [nil |-> TRUE, seed |-> <<>>]

\* nkeys.FromSeed: a nil KeyPair and the error when the seed does not decode
FromSeed(src) ==
    IF DecodeSeed(src).err /= ""
    THEN [err |-> DecodeSeed(src).err, kp |-> NilKeyPair]
    ELSE [err |-> "", kp |-> [nil |-> FALSE, seed |-> src]]

\* stand-in for the ed25519 public key derived from the raw seed (injective)
DerivePublic(raw) == (7 * raw + 3) % 10

EncodePublic(p, pub) ==
    LET b == <<PrefixChar(p), 48 + pub>> IN b \o <<Crc(b)>>

\* KeyPair.PublicKey of a non-nil pair
PublicKey(kp) ==
    LET d == DecodeSeed(kp.seed) IN EncodePublic(d.prefix, DerivePublic(d.raw))

\* nkeys.IsValidPublicOperatorKey / ...AccountKey / ...UserKey
IsValidPublicKey(src, p) ==
    /\ Len(src) = 3
    /\ src[3] = Crc(SubSeq(src, 1, 2))
    /\ src[1] = PrefixChar(p)

\* stand-in for the ed25519 signature of msg under the key of the seed
Sign(kp, msg) ==
    LET raw == DecodeSeed(kp.seed).raw
        p == PrefixChar(DecodeSeed(kp.seed).prefix)
    IN  << (17 * raw + p + WSumTo(msg, Len(msg))) % 256,
           (raw + SumTo(msg, Len(msg))) % 256 >>

\* ------------------------------------------------------------------ JSON
RECURSIVE Digits(_)
Digits(n) == IF n < 10 THEN <<48 + n>> ELSE Digits(n \div 10) \o <<48 + (n % 10)>>

RECURSIVE JoinFrom(_, _)
\* the non-empty members of parts, from index i on, separated by ","
JoinFrom(parts, i) ==
    IF i > Len(parts) THEN <<>>
    ELSE LET rest == JoinFrom(parts, i + 1) IN
         IF parts[i] = <<>> THEN rest
         ELSE IF rest = <<>> THEN parts[i]
         ELSE parts[i] \o <<44>> \o rest

Object(parts) == <<123>> \o JoinFrom(parts, 1) \o <<125>>
Array(parts) == <<91>> \o JoinFrom(parts, 1) \o <<93>>

\* `json:"key,omitempty"` of a string and of an int64
StrField(key, v) == IF v = <<>> THEN <<>> ELSE Q(key) \o <<58>> \o Q(v)
IntField(key, n) == IF n = 0 THEN <<>> ELSE Q(key) \o <<58>> \o Digits(n)

RECURSIVE TextLess(_, _, _)
\* bytewise order of two texts, compared from index i on
TextLess(a, b, i) ==
    IF i > Len(b) THEN FALSE
    ELSE IF i > Len(a) THEN TRUE
    ELSE IF a[i] /= b[i] THEN a[i] < b[i]
    ELSE TextLess(a, b, i + 1)

RECURSIVE SortTexts(_)
\* sort.Strings over the keys of a map
SortTexts(S) ==
    IF S = {} THEN <<>>
    ELSE LET m == CHOOSE x \in S : \A y \in S \ {x} : TextLess(x, y, 1)
         IN  <<m>> \o SortTexts(S \ {m})

\* ------------------------------------------------------------------ claims
\* the json tags of jwt.ClaimsData, jwt.Header and the nats payload
Key ==
    [aud |-> <<97, 117, 100>>,
     exp |-> <<101, 120, 112>>,
     jti |-> <<106, 116, 105>>,
     iat |-> <<105, 97, 116>>,
     iss |-> <<105, 115, 115>>,
     name |-> <<110, 97, 109, 101>>,
     nbf |-> <<110, 98, 102>>,
     sub |-> <<115, 117, 98>>,
     nats |-> <<110, 97, 116, 115>>,
     typ |-> <<116, 121, 112>>,
     alg |-> <<97, 108, 103>>,
     type |-> <<116, 121, 112, 101>>,
     version |-> <<118, 101, 114, 115, 105, 111, 110>>,
     signing_keys |-> <<115, 105, 103, 110, 105, 110, 103, 95, 107, 101, 121, 115>>,
     kind |-> <<107, 105, 110, 100>>,
     key |-> <<107, 101, 121>>,
     account_server_url |-> <<97, 99, 99, 111, 117, 110, 116, 95, 115, 101, 114, 118, 101, 114, 95, 117, 114, 108>>]

\* jwt.TokenTypeJwt, jwt.AlgorithmNkey; jwt.OperatorClaim, AccountClaim, UserClaim
TokenTypeJwt == <<74, 87, 84>>
AlgorithmNkey == <<101, 100, 50, 53, 53, 49, 57, 45, 110, 107, 101, 121>>
OperatorClaim == <<111, 112, 101, 114, 97, 116, 111, 114>>
AccountClaim == <<97, 99, 99, 111, 117, 110, 116>>
UserClaim == <<117, 115, 101, 114>>
Header == [Type |-> TokenTypeJwt, Algorithm |-> AlgorithmNkey]

\* timestamps and names the callers supply
TextName == <<97, 46, 98>>
TextAud == <<122>>
TextGoodInt == <<51>>
TextBadInt == <<120>>
TextGoodUrl == <<104, 116, 116, 112, 115, 58, 47, 47, 97>>
TextBadUrl == <<102, 116, 112, 58, 47, 47, 97>>

\* the zero jwt.ClaimsData
ZeroClaimsData ==
    [Audience |-> <<>>, Expires |-> 0, ID |-> <<>>, IssuedAt |-> 0,
     Issuer |-> <<>>, Name |-> <<>>, NotBefore |-> 0, Subject |-> <<>>]

\* no claims built yet
NoClaims ==
    [kind |-> "none", ClaimsData |-> ZeroClaimsData, SigningKeys |-> <<>>,
     AccountSigningKeys |-> <<>>, AccountServerURL |-> <<>>,
     Type |-> <<>>, Version |-> 0]

\* NewClaims with the subject left out of the claims it builds
NewClaimsNoSubject(kind, subject) ==
    [NoClaims EXCEPT !.kind = kind]

\* jwt.NewOperatorClaims, jwt.NewAccountClaims, jwt.NewUserClaims: kind is the
\* Go type of the claims; an operator starts self-issued.  SigningKeys is the
\* operator's StringList; AccountSigningKeys is the account's map from key to
\* scope, kept as the sequence of its <<key, scope key>> entries sorted by
\* key (a nil scope is <<>>).
NewClaims(kind, subject) ==
    [NoClaims EXCEPT
        !.kind = kind,
        !.ClaimsData = [ZeroClaimsData EXCEPT
            !.Subject = subject,
            !.Issuer = IF kind = "operator" THEN subject ELSE <<>>]]

\* json.Marshal of a jwt.ClaimsData: the fields in declaration order
ClaimsDataFields(c) ==
    << StrField(Key.aud, c.Audience),
       IntField(Key.exp, c.Expires),
       StrField(Key.jti, c.ID),
       IntField(Key.iat, c.IssuedAt),
       StrField(Key.iss, c.Issuer),
       StrField(Key.name, c.Name),
       IntField(Key.nbf, c.NotBefore),
       StrField(Key.sub, c.Subject) >>

\* one entry of SigningKeys.MarshalJSON: the key, or the scope object
ScopeEntry(e) ==
    IF e[2] = <<>> THEN Q(e[1])
    ELSE Object(<< StrField(Key.kind, UserClaim), StrField(Key.key, e[2]) >>)

\* json.Marshal of the nats payload (jwt.Operator, jwt.Account, jwt.User); the
\* sub-objects that do not vary with the inputs (limits, permissions) are
\* left out
NatsFields(cl) ==
    << IF cl.kind = "operator" /\ cl.SigningKeys /= <<>>
       THEN Q(Key.signing_keys) \o <<58>>
            \o Array([i \in 1..Len(cl.SigningKeys) |-> Q(cl.SigningKeys[i])])
       ELSE IF cl.kind = "account" /\ cl.AccountSigningKeys /= <<>>
       THEN Q(Key.signing_keys) \o <<58>>
            \o Array([i \in 1..Len(cl.AccountSigningKeys) |->
                        ScopeEntry(cl.AccountSigningKeys[i])])
       ELSE <<>>,
       StrField(Key.account_server_url, cl.AccountServerURL),
       StrField(Key.type, cl.Type),
       IntField(Key.version, cl.Version) >>

\* json.Marshal of a jwt.Header, a jwt.ClaimsData or a whole claims struct
Marshal(v) ==
    IF "Algorithm" \in DOMAIN v
    THEN Object(<< StrField(Key.typ, v.Type), StrField(Key.alg, v.Algorithm) >>)
    ELSE IF "ClaimsData" \in DOMAIN v
    THEN Object(ClaimsDataFields(v.ClaimsData)
                \o << Q(Key.nats) \o <<58>> \o Object(NatsFields(v)) >>)
    ELSE Object(ClaimsDataFields(v))

hash(c) == b32Enc(Sum512_256(Marshal(c)))

serialize(v) == encodeToString(Marshal(v))

\* ------------------------------------------------------------------ inputs
None == <<>>
Some(x) == <<x>>

\* the extension JSON, as the document json.Unmarshal reads: wf is false for
\* text that is not JSON; keys are the signing_keys entries in array order, a
\* scoped entry being a scope object carrying the key
Doc(keys, url) == [wf |-> TRUE, keys |-> keys, url |-> url]
Malformed == [wf |-> FALSE, keys |-> <<>>, url |-> <<>>]
Plain(k) == [key |-> k, scoped |-> FALSE]
Scoped(k) == [key |-> k, scoped |-> TRUE]

\* strconv.ParseInt(s, 10, 64) of an unsigned decimal text: the value, or 0
\* and an error
RECURSIVE ParseDigits(_, _)
ParseDigits(s, i) ==
    IF i = 0 THEN 0 ELSE 10 * ParseDigits(s, i - 1) + (s[i] - 48)

ParseInt(s) ==
    IF s /= <<>> /\ \A i \in 1..Len(s) : s[i] \in 48..57
    THEN [err |-> "", n |-> ParseDigits(s, Len(s))]
    ELSE [err |-> "ErrSyntax", n |-> 0]

\* ------------------------------------------------------------------ jwt library
\* ExpectedPrefixes with an operator key accepted for user claims as well
ExpectedPrefixesOperatorForUser(kind) ==
    CASE kind = "operator" -> {"Operator"}
      [] kind = "account"  -> {"Account", "Operator"}
      [] kind = "user"     -> {"Account", "Operator"}
      [] OTHER             -> {}

\* Claims.ExpectedPrefixes of the three claim types
ExpectedPrefixes(kind) ==
    CASE kind = "operator" -> {"Operator"}
      [] kind = "account"  -> {"Account", "Operator"}
      [] kind = "user"     -> {"Account"}
      [] OTHER             -> {}

SubjectPrefix(kind) ==
    CASE kind = "operator" -> "Operator"
      [] kind = "account"  -> "Account"
      [] kind = "user"     -> "User"
      [] OTHER             -> "Unknown"

ClaimType(kind) ==
    CASE kind = "operator" -> OperatorClaim
      [] kind = "account"  -> AccountClaim
      [] kind = "user"     -> UserClaim
      [] OTHER             -> <<>>

\* OperatorClaims.validateAccountServerURL
ValidServerURL(u) == u = <<>> \/ (Len(u) >= 4 /\ SubSeq(u, 1, 4) = <<104, 116, 116, 112>>)

\* header.payload.signature under the issuer's key
Assemble(cl, kp) ==
    LET toSign == serialize(Header) \o Dot \o serialize(cl)
    IN  toSign \o Dot \o encodeToString(Sign(kp, toSign))

\* OperatorClaims.Encode / AccountClaims.Encode / UserClaims.Encode of the
\* jwt library with ClaimsData.doEncode, at clock t: the error, the token,
\* the claims as the call leaves them and the steps taken
Encode(cl, kp, t) ==
    IF ~IsValidPublicKey(cl.ClaimsData.Subject, SubjectPrefix(cl.kind))
    THEN [err |-> "subject", token |-> <<>>, claims |-> cl, trace |-> <<>>]
    ELSE IF cl.kind = "operator" /\ ~ValidServerURL(cl.AccountServerURL)
    THEN [err |-> "account_server_url", token |-> <<>>, claims |-> cl, trace |-> <<>>]
    ELSE LET typed == [cl EXCEPT !.Type = ClaimType(cl.kind)] IN
    IF kp.nil
    THEN [err |-> "keypair is required", token |-> <<>>, claims |-> typed, trace |-> <<>>]
    ELSE IF DecodeSeed(kp.seed).prefix \notin ExpectedPrefixes(cl.kind)
    THEN [err |-> "expected prefixes", token |-> <<>>, claims |-> typed,
          trace |-> <<"use_iss", "tier">>]
    ELSE LET stamped == [typed.ClaimsData EXCEPT
                            !.Issuer = PublicKey(kp), !.IssuedAt = t, !.ID = <<>>]
             done == [typed EXCEPT
                         !.ClaimsData = [stamped EXCEPT !.ID = hash(stamped)],
                         !.Version = 2]
         IN  [err |-> "", token |-> Assemble(done, kp), claims |-> done,
              trace |-> <<"use_iss", "tier", "id", "sign">>]

\* ------------------------------------------------------------------ extension data
decodeNKey(seed) ==
    IF DecodeSeed(seed).err /= ""
    THEN [err |-> DecodeSeed(seed).err, prefix |-> "Unknown", pkey |-> <<>>]
    ELSE [err |-> "", prefix |-> DecodeSeed(seed).prefix,
          pkey |-> PublicKey(FromSeed(seed).kp)]

\* json.Unmarshal into jwt.Operator: signing_keys is a list of strings
UnmarshalOperator(doc) ==
    IF ~doc.wf \/ \E i \in 1..Len(doc.keys) : doc.keys[i].scoped
    THEN [err |-> "json", keys |-> <<>>, url |-> <<>>]
    ELSE [err |-> "", keys |-> [i \in 1..Len(doc.keys) |-> doc.keys[i].key],
          url |-> doc.url]

\* json.Unmarshal into jwt.Account: SigningKeys.UnmarshalJSON fills the map
\* from key to scope; the map is the set of its <<key, scope key>> entries
UnmarshalAccount(doc) ==
    IF ~doc.wf THEN [err |-> "json", keys |-> {}]
    ELSE [err |-> "",
          keys |-> {<<doc.keys[i].key,
                      IF doc.keys[i].scoped THEN doc.keys[i].key ELSE <<>> >> :
                        i \in {j \in 1..Len(doc.keys) :
                                 \A l \in (j + 1)..Len(doc.keys) :
                                     doc.keys[l].key /= doc.keys[j].key}}]

\* json.Unmarshal into jwt.User: no signing keys to read
UnmarshalUser(doc) == IF ~doc.wf THEN [err |-> "json"] ELSE [err |-> ""]

RECURSIVE Perms(_)
Perms(S) ==
    IF S = {} THEN {<<>>}
    ELSE UNION {{<<x>> \o q : q \in Perms(S \ {x})} : x \in S}

\* the orders in which `range` may visit the signing keys of the document
Orders(nats) ==
    IF nats = None \/ ~nats[1].wf THEN {<<>>}
    ELSE Perms({e[1] : e \in UnmarshalAccount(nats[1]).keys})

\* the entries of a map, as the sequence sorted by key
SortedEntries(m) ==
    LET ks == SortTexts({e[1] : e \in m})
    IN  [i \in 1..Len(ks) |-> CHOOSE e \in m : e[1] = ks[i]]

RECURSIVE OperatorSigningKeys(_, _)
\* the loop over ocliams.Operator.SigningKeys, from index i on
OperatorSigningKeys(keys, i) ==
    IF i > Len(keys) THEN [err |-> "", keys |-> keys]
    ELSE LET d == decodeNKey(keys[i]) IN
         IF d.err /= "" THEN [err |-> "decode", keys |-> keys]
         ELSE IF d.prefix /= "Operator" THEN [err |-> "type", keys |-> keys]
         ELSE OperatorSigningKeys([keys EXCEPT ![i] = d.pkey], i + 1)

RECURSIVE AccountSigningKeys(_, _, _, _)
\* the loop over ocliams.Account.SigningKeys visiting the keys in `order`,
\* from index i on, signingKeys being the map built so far
AccountSigningKeys(m, order, i, signingKeys) ==
    IF i > Len(order) THEN [err |-> "", keys |-> signingKeys]
    ELSE LET d == decodeNKey(order[i])
             scope == (CHOOSE e \in m : e[1] = order[i])[2]
         IN  IF d.err /= "" THEN [err |-> "decode", keys |-> signingKeys]
             ELSE IF d.prefix /= "Account" THEN [err |-> "type", keys |-> signingKeys]
             ELSE AccountSigningKeys(m, order, i + 1,
                      {e \in signingKeys : e[1] /= d.pkey} \cup {<<d.pkey, scope>>})

\* the claims of the subject's tier with the extension data of JwtFunction.Run
\* decoded into them: err is "", "nats", "decode" or "type"
RunExtension(kind, subjectPublicKey, nats, order) ==
    LET cl == NewClaims(kind, subjectPublicKey) IN
    IF nats = None THEN [err |-> "", claims |-> cl]
    ELSE IF kind = "operator" THEN
        LET u == UnmarshalOperator(nats[1])
            k == OperatorSigningKeys(u.keys, 1)
        IN  IF u.err /= "" THEN [err |-> "nats", claims |-> cl]
            ELSE [err |-> k.err,
                  claims |-> [cl EXCEPT !.SigningKeys = k.keys,
                                        !.AccountServerURL = u.url]]
    ELSE IF kind = "account" THEN
        LET u == UnmarshalAccount(nats[1])
            k == AccountSigningKeys(u.keys, order, 1, {})
        IN  IF u.err /= "" THEN [err |-> "nats", claims |-> cl]
            ELSE [err |-> k.err,
                  claims |-> [cl EXCEPT !.AccountSigningKeys = SortedEntries(k.keys)]]
    ELSE [err |-> IF UnmarshalUser(nats[1]).err /= "" THEN "nats" ELSE "",
          claims |-> cl]

\* ------------------------------------------------------------------ JwtFunction.Run
\* What a call leaves behind: resp.Error ("" for nil), resp.Result (<<>> while
\* unset), whether the call panicked, the steps it took in order, and the
\* claims it serialized.
Fail(e, tr) ==
    [error |-> e, result |-> <<>>, panic |-> FALSE, trace |-> tr, claims |-> NoClaims]

Panic(e, tr) ==
    [error |-> e, result |-> <<>>, panic |-> TRUE, trace |-> tr, claims |-> NoClaims]

Done(token, tr, cl) ==
    [error |-> "", result |-> token, panic |-> FALSE, trace |-> tr, claims |-> cl]

\* the kind of claims JwtFunction.Run builds for a subject prefix
KindOfPrefix(prefix) ==
    CASE prefix = "Operator" -> "operator"
      [] prefix = "Account"  -> "account"
      [] prefix = "User"     -> "user"
      [] OTHER               -> "none"

\* RunRequiredIssuer with an account allowed to issue for an account, as the
\* library's own prefix list has it
RunRequiredIssuerSelfSigned(prefix) ==
    CASE prefix = "Operator" -> "Operator"
      [] prefix = "Account"  -> "Account"
      [] prefix = "User"     -> "Account"
      [] OTHER               -> "Unknown"

\* the issuer prefix a subject prefix requires in the map revision of Run
RunRequiredIssuer(prefix) ==
    CASE prefix = "Operator" -> "Operator"
      [] prefix = "Account"  -> "Operator"
      [] prefix = "User"     -> "Account"
      [] OTHER               -> "Unknown"

\* SignClaims with the signature made over the payload segment alone
SignClaimsPayloadOnly(cl, issuer) ==
    LET withID == [cl EXCEPT !.ClaimsData.ID = hash([cl.ClaimsData EXCEPT !.ID = <<>>])]
        header == serialize(Header)
        payload == serialize(withID)
        eSig == encodeToString(Sign(issuer, payload))
    IN  [claims |-> withID, token |-> header \o Dot \o payload \o Dot \o eSig]

\* SignClaims with the ID hashed from the whole claims, tier payload included
SignClaimsFullHash(cl, issuer) ==
    LET withID == [cl EXCEPT !.ClaimsData.ID = hash([cl EXCEPT !.ClaimsData.ID = <<>>])]
        toSign == serialize(Header) \o Dot \o serialize(withID)
    IN  [claims |-> withID,
         token |-> toSign \o Dot \o encodeToString(Sign(issuer, toSign))]

\* SignClaims with the ID the claims already carry left in the hashed bytes
SignClaimsKeepID(cl, issuer) ==
    LET withID == [cl EXCEPT !.ClaimsData.ID = hash(cl.ClaimsData)]
        toSign == serialize(Header) \o Dot \o serialize(withID)
    IN  [claims |-> withID,
         token |-> toSign \o Dot \o encodeToString(Sign(issuer, toSign))]

\* the ID, the two segments, the signature and the token
SignClaims(cl, issuer) ==
    LET withID == [cl EXCEPT !.ClaimsData.ID = hash([cl.ClaimsData EXCEPT !.ID = <<>>])]
        header == serialize(Header)
        payload == serialize(withID)
        toSign == header \o Dot \o payload
        eSig == encodeToString(Sign(issuer, toSign))
    IN  [claims |-> withID, token |-> toSign \o Dot \o eSig]

\* JwtFunction.Run over a map of strings, from the envelope fields on
RunMapEnvelope(a, t, cl0, issuer, tr) ==
    LET c1 == [cl0.ClaimsData EXCEPT
                  !.Issuer = PublicKey(issuer),
                  !.Subject = PublicKey(FromSeed(a.sub[1]).kp),
                  !.Name = a.name[1],
                  !.Audience = IF a.aud = None THEN @ ELSE a.aud[1]]
        exp == IF a.exp = None THEN [err |-> "", n |-> 0] ELSE ParseInt(a.exp[1])
        c2 == [c1 EXCEPT !.Expires = IF a.exp = None THEN @ ELSE exp.n]
        \* the error of parsing nbf is dropped; err still holds nil
        c3 == [c2 EXCEPT !.NotBefore = IF a.nbf = None THEN @ ELSE ParseInt(a.nbf[1]).n]
        enc == Encode([cl0 EXCEPT !.ClaimsData = c3], issuer, t)
        iat == IF a.iat = None THEN [err |-> "", n |-> 0] ELSE ParseInt(a.iat[1])
        c4 == [enc.claims EXCEPT !.ClaimsData.IssuedAt = IF a.iat = None THEN @ ELSE iat.n]
        out == SignClaims(c4, issuer)
    IN  IF exp.err /= "" THEN Fail("exp_error", tr \o <<"exp">>)
        ELSE IF enc.err /= ""
        THEN Fail("encode_error", tr \o <<"exp", "nbf", "encode">> \o enc.trace)
        ELSE IF iat.err /= ""
        THEN Fail("iat_error", tr \o <<"exp", "nbf", "encode">> \o enc.trace \o <<"iat">>)
        ELSE Done(out.token,
                  tr \o <<"exp", "nbf", "encode">> \o enc.trace
                     \o <<"iat", "id", "serialize", "sign", "set">>,
                  out.claims)

\* the arguments with every field absent
NoArgs ==
    [getOk |-> TRUE, iss |-> None, sub |-> None, name |-> None, aud |-> None,
     exp |-> None, nbf |-> None, iat |-> None, nats |-> None]

\* the required-field checks of JwtFunction.Run: the error of the first
\* absent field, "" when none is absent
MissingField(a) ==
    IF a.iss = None THEN "iss_empty"
    ELSE IF a.sub = None THEN "sub_empty"
    ELSE IF a.name = None THEN "name_empty"
    ELSE ""

\* JwtFunction.Run over a map of strings, at clock t, `range` visiting the
\* account signing keys in `order`
RunMap(a, t, order) ==
    IF ~a.getOk THEN Fail("arguments_error", <<"get">>)
    ELSE IF MissingField(a) /= "" THEN Fail(MissingField(a), <<"get">>)
    ELSE IF FromSeed(a.sub[1]).err /= ""
    THEN Fail("sub_error", <<"get", "decode_sub">>)
    ELSE IF FromSeed(a.iss[1]).err /= ""
    \* resp.Error is set but the call goes on to issuer.PublicKey() on nil
    THEN Panic("iss_error", <<"get", "decode_sub", "decode_iss", "use_iss">>)
    ELSE
    LET issuer == FromSeed(a.iss[1]).kp
        prefix == DecodeSeed(a.sub[1]).prefix
        issuerPrefix == DecodeSeed(a.iss[1]).prefix
        tr == <<"get", "decode_sub", "decode_iss", "use_iss", "tier">>
        ext == RunExtension(KindOfPrefix(prefix), PublicKey(FromSeed(a.sub[1]).kp),
                            a.nats, order)
    IN  IF KindOfPrefix(prefix) = "none" THEN Fail("sub_type_error", tr)
        ELSE IF issuerPrefix /= RunRequiredIssuer(prefix) THEN Fail("iss_error", tr)
        ELSE IF ext.err = "nats" THEN Fail("nats_error", tr \o <<"nats">>)
        ELSE IF ext.err = "decode" THEN Fail("signing_key_error", tr \o <<"nats">>)
        ELSE IF ext.err = "type" THEN Fail("signing_key_type_error", tr \o <<"nats">>)
        ELSE RunMapEnvelope(a, t, ext.claims, issuer, tr \o <<"nats">>)

\* req.Arguments.Get of the object revision: the parameter declares exp and
\* nbf as strings and the target holds them as *int64, so the read fails once
\* either is set, and a failed read leaves the target as it was
ObjectGet(a) ==
    IF a.getOk /\ a.exp = None /\ a.nbf = None THEN a ELSE NoArgs

\* JwtFunction.Run over an object (there is no iat), at clock t, `range`
\* visiting the account signing keys in `order`
RunObject(args, t, order) ==
    \* the error of req.Arguments.Get is not looked at
    LET a == ObjectGet(args) IN
    IF MissingField(a) /= "" THEN Fail(MissingField(a), <<"get">>)
    ELSE IF FromSeed(a.sub[1]).err /= ""
    THEN Fail("sub_error", <<"get", "decode_sub">>)
    ELSE
    LET \* resp.Error is set when iss does not decode, and the call goes on
        issuer == FromSeed(a.iss[1]).kp
        prefix == DecodeSeed(a.sub[1]).prefix
        tr == <<"get", "decode_sub", "decode_iss">>
        ext == RunExtension(KindOfPrefix(prefix), PublicKey(FromSeed(a.sub[1]).kp),
                            a.nats, order)
        cd == [ext.claims.ClaimsData EXCEPT
                  !.Name = a.name[1],
                  !.Audience = IF a.aud = None THEN @ ELSE a.aud[1],
                  \* data.Expires and data.NotBefore are nil whenever Get succeeded
                  !.Expires = IF a.exp = None THEN @ ELSE a.exp[1],
                  !.NotBefore = IF a.nbf = None THEN @ ELSE a.nbf[1]]
        enc == Encode([ext.claims EXCEPT !.ClaimsData = cd], issuer, t)
    IN  IF KindOfPrefix(prefix) = "none" THEN Fail("sub_type_error", tr)
        ELSE IF ext.err = "nats" THEN Fail("nats_error", tr \o <<"nats">>)
        ELSE IF ext.err = "decode"
        THEN Fail("signing_key_decode_error", tr \o <<"nats">>)
        ELSE IF ext.err = "type" THEN Fail("signing_key_type_error", tr \o <<"nats">>)
        ELSE IF enc.err /= ""
        THEN Fail("encode_jwt_error", tr \o <<"nats", "encode">> \o enc.trace)
        ELSE IF FromSeed(a.iss[1]).err /= ""
        THEN Fail("iss_error", tr \o <<"nats", "encode">> \o enc.trace)
        ELSE Done(enc.token, tr \o <<"nats", "encode">> \o enc.trace \o <<"set">>,
                  enc.claims)

\* ------------------------------------------------------------------ JwtResource
\* JwtResourceModel: a null attribute is None; ID and Token are computed
NoData ==
    [ID |-> <<>>, Name |-> <<>>, Subject |-> <<>>, Issuer |-> <<>>,
     IssuedAt |-> None, Expires |-> None, NotBefore |-> None, Audience |-> None,
     Nats |-> None, Token |-> <<>>]

\* the tier UpdateJWT reads from the subject's public identifier
SubType(subject) ==
    IF IsValidPublicKey(subject, "Operator") THEN "Operator"
    ELSE IF IsValidPublicKey(subject, "Account") THEN "Account"
    ELSE IF IsValidPublicKey(subject, "User") THEN "User"
    ELSE "Unknown"

\* the issuer prefix UpdateJWT requires for a subject tier
UpdateRequiredIssuer(subType) ==
    CASE subType = "Operator" -> "Operator"
      [] subType = "Account"  -> "Operator"
      [] subType = "User"     -> "Operator"
      [] OTHER                -> "Unknown"

\* the claims of the subject's tier with the extension data of UpdateJWT read
\* into them as it stands
UpdateExtension(kind, subject, nats) ==
    LET cl == NewClaims(kind, subject) IN
    IF nats = None THEN [err |-> "", claims |-> cl]
    ELSE IF kind = "operator" THEN
        LET u == UnmarshalOperator(nats[1])
        IN  [err |-> u.err,
             claims |-> [cl EXCEPT !.SigningKeys = u.keys, !.AccountServerURL = u.url]]
    ELSE IF kind = "account" THEN
        LET u == UnmarshalAccount(nats[1])
        IN  [err |-> u.err,
             claims |-> [cl EXCEPT !.AccountSigningKeys = SortedEntries(u.keys)]]
    ELSE [err |-> UnmarshalUser(nats[1]).err, claims |-> cl]

\* the IssuedAt UpdateJWT writes at clock t
UpdateIssuedAt(data, t) ==
    IF data.Expires = None THEN t
    ELSE IF data.IssuedAt = None THEN 0 ELSE data.IssuedAt[1]

\* UpdateJWT at clock t: the error ("" for nil), the model as the call leaves
\* it, the steps taken and the claims serialized
UpdateJWT(data, t) ==
    LET subType == SubType(data.Subject)
        issuer == FromSeed(data.Issuer).kp
        ext == UpdateExtension(KindOfPrefix(subType), data.Subject, data.Nats)
        typed == [ext.claims EXCEPT !.Type = OperatorClaim, !.Version = 2]
        cd == [typed.ClaimsData EXCEPT
                  !.Name = data.Name,
                  !.Issuer = PublicKey(issuer),
                  !.IssuedAt = UpdateIssuedAt(data, t),
                  !.Expires = IF data.Expires = None THEN @ ELSE data.Expires[1],
                  !.NotBefore = IF data.NotBefore = None THEN @ ELSE data.NotBefore[1],
                  !.Audience = IF data.Audience = None THEN @ ELSE data.Audience[1]]
        out == SignClaims([typed EXCEPT !.ClaimsData = cd], issuer)
        bad(e, tr) == [err |-> e, data |-> data, trace |-> tr, claims |-> NoClaims]
    IN  IF subType = "Unknown" THEN bad("sub invalid", <<"sub">>)
        ELSE IF FromSeed(data.Issuer).err /= ""
        THEN bad(FromSeed(data.Issuer).err, <<"sub", "decode_iss">>)
        ELSE IF DecodeSeed(data.Issuer).prefix /= UpdateRequiredIssuer(subType)
        THEN bad("isser invalid", <<"sub", "decode_iss", "use_iss", "tier">>)
        ELSE IF ext.err /= ""
        THEN bad(ext.err, <<"sub", "decode_iss", "use_iss", "tier", "nats">>)
        ELSE [err |-> "",
              data |-> [data EXCEPT !.ID = out.claims.ClaimsData.ID,
                                    !.Token = out.token],
              trace |-> <<"sub", "decode_iss", "use_iss", "tier", "nats",
                          "id", "serialize", "sign">>,
              claims |-> out.claims]

\* ------------------------------------------------------------------ the inputs drawn
\* issuer seeds carry entropy 1, subject keys entropy 2, signing keys 3 and 4
SeedOp == EncodeSeed("Operator", 1)
SeedAcc == EncodeSeed("Account", 1)
SeedUser == EncodeSeed("User", 1)
BadSeed == <<83, 79, 49, 33>>
SubjectSeed(p) == EncodeSeed(p, 2)
SubjectPublic(p) == PublicKey(FromSeed(SubjectSeed(p)).kp)

\* extension documents: operator keys, account keys (listed against their
\* sorted order), a public identifier beside a key of the wrong tier, and a
\* server URL the library refuses
DocOperatorKeys ==
    Doc(<<Plain(EncodeSeed("Operator", 3)), Plain(EncodeSeed("Operator", 4))>>, TextGoodUrl)
DocAccountKeys ==
    Doc(<<Plain(EncodeSeed("Account", 3)), Plain(EncodeSeed("Account", 4))>>, <<>>)
DocMixedKeys ==
    Doc(<<Plain(SubjectPublic("Account")), Plain(EncodeSeed("User", 3))>>, <<>>)
DocBadUrl == Doc(<<>>, TextBadUrl)
Docs == {None, Some(Malformed), Some(DocOperatorKeys), Some(DocAccountKeys),
         Some(DocMixedKeys), Some(DocBadUrl)}

IssuerTexts == {SeedOp, SeedAcc, SeedUser, BadSeed}
RunSubjects ==
    {SubjectSeed("Operator"), SubjectSeed("Account"), SubjectSeed("User"),
     SubjectSeed("Server"), BadSeed}
Opt(S) == {None} \cup {Some(x) : x \in S}

ValidIssuers == {SeedOp, SeedAcc, SeedUser}
ValidSubjects == {SubjectSeed("Operator"), SubjectSeed("Account"), SubjectSeed("User")}

\* the arguments of the map revision, every value a string: the required
\* fields in every combination, and calls whose seeds decode with the
\* optional fields in every combination
MapArgs ==
    [getOk : BOOLEAN, iss : Opt(IssuerTexts), sub : Opt(RunSubjects),
     name : Opt({TextName}), aud : {None}, exp : {None}, nbf : {None},
     iat : {None}, nats : {None}]
    \cup
    [getOk : {TRUE}, iss : Opt(ValidIssuers) \ {None}, sub : Opt(ValidSubjects) \ {None},
     name : {Some(TextName)}, aud : Opt({TextAud}),
     exp : Opt({TextGoodInt, TextBadInt}), nbf : Opt({TextGoodInt, TextBadInt}),
     iat : Opt({TextGoodInt, TextBadInt}), nats : Docs]

\* the arguments of the object revision: every attribute a string, no iat
ObjectArgs ==
    [getOk : {TRUE}, iss : Opt(IssuerTexts), sub : Opt(RunSubjects),
     name : Opt({TextName}), aud : {None}, exp : Opt({TextGoodInt}), nbf : {None},
     iat : {None}, nats : {None, Some(DocOperatorKeys)}]
    \cup
    [getOk : {TRUE}, iss : Opt(ValidIssuers) \ {None}, sub : Opt(ValidSubjects) \ {None},
     name : {Some(TextName)}, aud : Opt({TextAud}),
     exp : Opt({TextGoodInt}), nbf : Opt({TextGoodInt}), iat : {None}, nats : Docs]

\* the orders `range` may take over the account signing keys of a call
RangeOrders(sub, nats) ==
    IF sub /= None /\ DecodeSeed(sub[1]).prefix = "Account" THEN Orders(nats) ELSE {<<>>}

\* the plans of the jwt resource: name, sub and iss are required
Plans ==
    [ID : {<<>>}, Name : {TextName},
     Subject : {SubjectPublic("Operator"), SubjectPublic("Account"),
                SubjectPublic("User"), SubjectSeed("Account")},
     Issuer : IssuerTexts,
     IssuedAt : Opt({3}), Expires : Opt({3}), NotBefore : Opt({3}),
     Audience : Opt({TextAud}),
     Nats : {None, Some(Malformed), Some(DocAccountKeys)},
     Token : {<<>>}]

\* the plans an Update may bring for a stored resource: another issuer, or
\* exp set or dropped
UpdatePlans(s) ==
    {[s EXCEPT !.Issuer = IF @ = SeedOp THEN SeedAcc ELSE SeedOp],
     [s EXCEPT !.Expires = IF @ = None THEN Some(3) ELSE None]}

\* ------------------------------------------------------------------ NkeyResource
\* base64.StdEncoding alphabet: A-Z a-z 0-9 + /
StdB64Alphabet(v) ==
    IF v < 26 THEN 65 + v
    ELSE IF v < 52 THEN 97 + (v - 26)
    ELSE IF v < 62 THEN 48 + (v - 52)
    ELSE IF v = 62 THEN 43 ELSE 47

b64Enc(d) == [k \in 1..EncLen(d, 6) |-> StdB64Alphabet(Group(d, k, 6))]

\* stand-in for ed25519.GenerateKey reading the raw seed: the public key
\* bytes, and the private key bytes (the seed followed by the public key)
GenerateKey(raw) ==
    [pub |-> <<DerivePublic(raw)>>, priv |-> <<raw, DerivePublic(raw)>>]

\* NkeyResourceModel
NoNkeyData ==
    [Type |-> "", ID |-> <<>>, Subject |-> <<>>, Private |-> <<>>, Public |-> <<>>]

\* the attributes NkeyResource derives from a seed and writes into the model
NkeyDerived(data, seed) ==
    [data EXCEPT
        !.Subject = PublicKey(FromSeed(seed).kp),
        !.Public = b64Enc(GenerateKey(DecodeSeed(seed).raw).pub),
        !.Private = b64Enc(GenerateKey(DecodeSeed(seed).raw).priv)]

\* NkeyResource.Create on the planned model, nkeys.CreateOperator /
\* CreateAccount / CreateUser drawing the entropy raw
NkeyCreated(data, raw) ==
    IF data.Type \notin {"Operator", "Account", "User"}
    THEN [err |-> "type", data |-> data]
    ELSE [err |-> "",
          data |-> NkeyDerived([data EXCEPT !.ID = EncodeSeed(data.Type, raw)],
                               EncodeSeed(data.Type, raw))]

\* the type NkeyResource.Read writes for the prefix of the stored seed
NkeyReadType(prefix) ==
    CASE prefix = "Operator" -> "Operator"
      [] prefix = "Account"  -> "Operator"
      [] prefix = "User"     -> "User"
      [] OTHER               -> ""

\* NkeyResource.Read on the stored model
NkeyReadOf(data) ==
    IF DecodeSeed(data.ID).err /= "" THEN [err |-> DecodeSeed(data.ID).err, data |-> data]
    ELSE IF NkeyReadType(DecodeSeed(data.ID).prefix) = ""
    THEN [err |-> "unknown type", data |-> data]
    ELSE [err |-> "",
          data |-> NkeyDerived([data EXCEPT !.Type = NkeyReadType(DecodeSeed(data.ID).prefix)],
                               data.ID)]

\* the types a plan may ask for, and the entropy a Create may draw
NkeyTypes == {"Operator", "Account", "User", "Server"}
NkeyEntropy == {5, 6}

\* ------------------------------------------------------------------ state
VARIABLES
    now,      \* the clock time.Now() reads
    resp,     \* the function call made: revision, arguments, clock, order, outcome
    state,    \* the stored jwt resource: exists, data
    last,     \* the last resource operation: op, plan, clock, error, trace, claims
    calls,    \* resource operations so far
    nkey      \* the nkey resource: stored, the model stored, the type asked
              \* for, the model as Create stored it, the last error, Reads so far

vars == <<now, resp, state, last, calls, nkey>>

NoNkey ==
    [exists |-> FALSE, data |-> NoNkeyData, asked |-> "", created |-> NoNkeyData,
     err |-> "", reads |-> 0]

NoResp ==
    [rev |-> "none", args |-> NoArgs, t |-> 0, order |-> <<>>, out |-> Fail("", <<>>)]
NoState == [exists |-> FALSE, data |-> NoData]
NoLast ==
    [op |-> "none", plan |-> NoData, t |-> 0, err |-> "", trace |-> <<>>,
     claims |-> NoClaims]

Init ==
    /\ now = 1
    /\ resp = NoResp
    /\ state = NoState
    /\ last = NoLast
    /\ calls = 0
    /\ nkey = NoNkey

\* time passes
Tick ==
    /\ now < MaxTime
    /\ now' = now + 1
    /\ UNCHANGED <<resp, state, last, calls, nkey>>

\* A behaviour is one function call, or the life of one jwt resource from its
\* Create on, or the life of one nkey resource: the function keeps nothing
\* between calls and the three share nothing.
Fresh == resp.rev = "none" /\ last.op = "none" /\ nkey = NoNkey

\* one call of the map revision of JwtFunction.Run
CallRunMap ==
    /\ Fresh
    /\ \E a \in MapArgs : \E order \in RangeOrders(a.sub, a.nats) :
          resp' = [rev |-> "map", args |-> a, t |-> now, order |-> order,
                   out |-> RunMap(a, now, order)]
    /\ UNCHANGED <<now, state, last, calls, nkey>>

\* one call of the object revision of JwtFunction.Run
CallRunObject ==
    /\ Fresh
    /\ \E a \in ObjectArgs : \E order \in RangeOrders(a.sub, a.nats) :
          resp' = [rev |-> "object", args |-> a, t |-> now, order |-> order,
                   out |-> RunObject(a, now, order)]
    /\ UNCHANGED <<now, state, last, calls, nkey>>

\* what a resource operation records, r being what UpdateJWT returned
LastOf(op, data, t, r) ==
    [op |-> op, plan |-> data, t |-> t, err |-> r.err, trace |-> r.trace,
     claims |-> r.claims]

\* resp.State.Set runs only when UpdateJWT returned no error
StateOf(old, r) == IF r.err = "" THEN [exists |-> TRUE, data |-> r.data] ELSE old

\* a resource operation whose UpdateJWT returned r
Applied(op, data, r) ==
    /\ last' = LastOf(op, data, now, r)
    /\ state' = StateOf(state, r)
    /\ calls' = calls + 1
    /\ UNCHANGED <<now, resp, nkey>>

\* a resource operation running UpdateJWT on data
Apply(op, data) == Applied(op, data, UpdateJWT(data, now))

\* JwtResource.Create
Create ==
    /\ Fresh
    /\ ~state.exists
    /\ \E plan \in Plans : Apply("Create", plan)

\* JwtResource.Read
Read ==
    /\ calls < MaxCalls
    /\ state.exists
    /\ Apply("Read", state.data)

\* JwtResource.Update
Update ==
    /\ calls < MaxCalls
    /\ state.exists
    /\ \E plan \in UpdatePlans(state.data) : Apply("Update", plan)

\* NkeyResource.Create: resp.State.Set runs only when nothing failed
NkeyCreate ==
    /\ Fresh
    /\ \E type \in NkeyTypes : \E raw \in NkeyEntropy :
          LET r == NkeyCreated([NoNkeyData EXCEPT !.Type = type], raw)
          IN  nkey' = [exists |-> r.err = "",
                       data |-> IF r.err = "" THEN r.data ELSE NoNkeyData,
                       asked |-> type,
                       created |-> IF r.err = "" THEN r.data ELSE NoNkeyData,
                       err |-> r.err, reads |-> 0]
    /\ UNCHANGED <<now, resp, state, last, calls>>

\* NkeyResource.Read: resp.State.Set runs only when nothing failed
NkeyRead ==
    /\ nkey.exists
    /\ nkey.reads < MaxCalls
    /\ nkey' = [nkey EXCEPT
                   !.data = IF NkeyReadOf(nkey.data).err = ""
                            THEN NkeyReadOf(nkey.data).data ELSE @,
                   !.err = NkeyReadOf(nkey.data).err,
                   !.reads = @ + 1]
    /\ UNCHANGED <<now, resp, state, last, calls>>

Next ==
    \/ Tick \/ CallRunMap \/ CallRunObject \/ Create \/ Read \/ Update
    \/ NkeyCreate \/ NkeyRead

Spec == Init /\ [][Next]_vars
\* ------------------------------------------------------------------ properties
Last(s) == s[Len(s)]
Has(tr, x) == \E i \in 1..Len(tr) : tr[i] = x

\* a function call was made; a resource operation ran
FnCalled == resp.rev /= "none"
ResCalled == last.op /= "none"

\* the call read its arguments and found iss, sub and name
FnReached ==
    /\ FnCalled /\ resp.args.getOk
    /\ resp.args.iss /= None /\ resp.args.sub /= None /\ resp.args.name /= None

\* the tiers of the seeds a function call was given ("Unknown": no seed)
FnSubTier == DecodeSeed(resp.args.sub[1]).prefix
FnIssTier == DecodeSeed(resp.args.iss[1]).prefix
\* the tiers the last resource operation was given
ResSubTier == SubType(last.plan.Subject)
ResIssTier == DecodeSeed(last.plan.Issuer).prefix

\* the issuer tier the hierarchy table requires
TableIssuer(subTier) ==
    CASE subTier = "Operator" -> "Operator"
      [] subTier = "Account"  -> "Operator"
      [] subTier = "User"     -> "Account"
      [] OTHER                -> "None"

\* the optional fields of a map call are absent or well-formed for the subject
MapOthersValid ==
    /\ resp.args.exp \in {None, Some(TextGoodInt)}
    /\ resp.args.nbf \in {None, Some(TextGoodInt)}
    /\ resp.args.iat \in {None, Some(TextGoodInt)}
    /\ resp.args.nats \in
          {None, Some(IF FnSubTier = "Operator" THEN DocOperatorKeys ELSE DocAccountKeys)}

\* C1: in the map revision of Run and in UpdateJWT, a token for a User-tier
\* subject is issued only under an Account-tier issuer seed; an Operator-tier
\* or User-tier issuer is refused with the hierarchy error and no token.
C1_UserSubjectNeedsAccountIssuer ==
    /\ (resp.rev = "map" /\ FnReached /\ FnSubTier = "User") =>
          /\ resp.out.result /= <<>> => FnIssTier = "Account"
          /\ FnIssTier \in {"Operator", "User"} =>
                /\ resp.out.result = <<>>
                /\ resp.out.error = "iss_error"
                /\ Last(resp.out.trace) = "tier"
    /\ (ResCalled /\ ResSubTier = "User") =>
          /\ last.err = "" => ResIssTier = "Account"
          /\ ResIssTier \in {"Operator", "User"} =>
                last.err = "isser invalid" /\ last.claims = NoClaims

AllowedIssuers(rev, subTier) ==
    IF rev = "object" /\ subTier = "Account" THEN {"Account", "Operator"}
    ELSE {TableIssuer(subTier)}

C4_OneOutcomeAbortAtFailure ==
    FnCalled =>
        /\ ~resp.out.panic
        /\ (resp.out.result /= <<>>) /= (resp.out.error /= "")
        /\ (FnReached /\ FnSubTier /= "Unknown" /\ FnIssTier = "Unknown") =>
              Last(resp.out.trace) = "decode_iss"

\* C5: when iss is not a valid seed, Run ends with the iss error and no token,
\* and nothing after the decoding of iss runs.
C5_InvalidIssuerAborts ==
    (FnReached /\ FnSubTier /= "Unknown" /\ FnIssTier = "Unknown") =>
        /\ resp.out.error = "iss_error"
        /\ ~resp.out.panic
        /\ resp.out.result = <<>>
        /\ ~Has(resp.out.trace, "use_iss")
        /\ ~Has(resp.out.trace, "encode")
\* the error of the first of iss, sub, name that a call's input lacks
FirstAbsent ==
    IF resp.args.iss = None THEN "iss_empty"
    ELSE IF resp.args.sub = None THEN "sub_empty"
    ELSE "name_empty"

\* C6: whenever iss, sub or name is absent from the input of Run, the call
\* ends with the missing-field error of the first absent field and no token,
\* before any seed is decoded.
C6_MissingFieldNamed ==
    (FnCalled /\ (resp.args.iss = None \/ resp.args.sub = None \/ resp.args.name = None)) =>
        /\ resp.out.error = FirstAbsent
        /\ resp.out.result = <<>>
        /\ resp.out.trace = <<"get">>

\* the positions of '.' in a token, and its three segments
DotsOf(tok) == {i \in 1..Len(tok) : tok[i] = 46}
Segments(tok) ==
    LET d1 == CHOOSE i \in DotsOf(tok) : \A j \in DotsOf(tok) : i <= j
        d2 == CHOOSE i \in DotsOf(tok) : \A j \in DotsOf(tok) : i >= j
    IN  <<SubSeq(tok, 1, d1 - 1), SubSeq(tok, d1 + 1, d2 - 1), SubSeq(tok, d2 + 1, Len(tok))>>

\* the tokens issued: the result of a call of Run, the stored token attribute
IssuedTokens ==
    (IF resp.out.result /= <<>> THEN {resp.out.result} ELSE {})
    \cup (IF state.exists THEN {state.data.Token} ELSE {})

\* C7: every token returned by Run or written by UpdateJWT has exactly two
\* '.' and three non-empty segments, none of which holds a '.'.
C7_TokenShape ==
    \A tok \in IssuedTokens :
        /\ Cardinality(DotsOf(tok)) = 2
        /\ \A i \in 1..3 : Len(Segments(tok)[i]) > 0

\* a token stored by an Update of the jwt resource
C7_Witness ==
    /\ state.exists /\ last.op = "Update" /\ last.err = ""
    /\ Cardinality(DotsOf(state.data.Token)) = 2

\* the third segment of tok is the encoded signature of the seed's key over
\* the first segment, a '.' and the second segment
SignedBy(tok, seed) ==
    /\ Cardinality(DotsOf(tok)) = 2
    /\ Segments(tok)[3] =
          encodeToString(Sign(FromSeed(seed).kp,
                              Segments(tok)[1] \o Dot \o Segments(tok)[2]))

\* C8: the third segment of every token returned by Run or stored by UpdateJWT
\* is the encoded signature, under the key of the issuer seed, of the token's
\* first segment, a '.' and its second segment, and the second segment is the
\* serialization of the claims as they were signed.
C8_SignatureOverOwnSegments ==
    /\ resp.out.result /= <<>> =>
          /\ SignedBy(resp.out.result, resp.args.iss[1])
          /\ Segments(resp.out.result)[1] = serialize(Header)
          /\ Segments(resp.out.result)[2] = serialize(resp.out.claims)
    /\ state.exists => SignedBy(state.data.Token, state.data.Issuer)
    /\ (ResCalled /\ last.err = "") =>
          /\ Segments(state.data.Token)[1] = serialize(Header)
          /\ Segments(state.data.Token)[2] = serialize(last.claims)

\* a token of the map revision signed by an account seed
C8_Witness ==
    /\ resp.rev = "map" /\ resp.out.result /= <<>>
    /\ FnIssTier = "Account"
    /\ SignedBy(resp.out.result, resp.args.iss[1])

\* the claims that the map revision of Run and UpdateJWT serialized in their
\* last successful issuance
IssuedClaims ==
    (IF resp.rev = "map" /\ resp.out.result /= <<>> THEN {resp.out.claims} ELSE {})
    \cup (IF ResCalled /\ last.err = "" THEN {last.claims} ELSE {})

C10_IDStable ==
    (resp.rev = "map" /\ resp.out.result /= <<>>) =>
        \A order \in RangeOrders(resp.args.sub, resp.args.nats) : \A t \in 1..MaxTime :
            LET again == RunMap(resp.args, t, order).claims
            IN  [again EXCEPT !.ClaimsData.ID = <<>>]
                    = [resp.out.claims EXCEPT !.ClaimsData.ID = <<>>]
                => again.ClaimsData.ID = resp.out.claims.ClaimsData.ID

\* an account token whose two signing keys were visited against their sorted
\* order, and the same claims coming out of the sorted visit
C10_Witness ==
    /\ resp.rev = "map" /\ resp.out.result /= <<>>
    /\ Len(resp.out.claims.AccountSigningKeys) = 2
    /\ \E order \in RangeOrders(resp.args.sub, resp.args.nats) :
          /\ order /= resp.order
          /\ RunMap(resp.args, resp.t, order).claims = resp.out.claims

\* C11: the payload of every token issued by the map revision of Run or by
\* UpdateJWT carries the subject's public identifier as sub, the public
\* identifier of the issuer seed as iss, the supplied name and a non-empty
\* ID; the id attribute the resource stores is that ID.
C11_EnvelopeOfIssuedToken ==
    /\ (resp.rev = "map" /\ resp.out.result /= <<>>) =>
          /\ Segments(resp.out.result)[2] = serialize(resp.out.claims)
          /\ resp.out.claims.ClaimsData.Subject = PublicKey(FromSeed(resp.args.sub[1]).kp)
          /\ resp.out.claims.ClaimsData.Issuer = PublicKey(FromSeed(resp.args.iss[1]).kp)
          /\ resp.out.claims.ClaimsData.Name = resp.args.name[1]
          /\ resp.out.claims.ClaimsData.ID /= <<>>
    /\ (ResCalled /\ last.err = "") =>
          /\ Segments(state.data.Token)[2] = serialize(last.claims)
          /\ last.claims.ClaimsData.Subject = last.plan.Subject
          /\ last.claims.ClaimsData.Issuer = PublicKey(FromSeed(last.plan.Issuer).kp)
          /\ last.claims.ClaimsData.Name = last.plan.Name
          /\ last.claims.ClaimsData.ID /= <<>>
          /\ state.data.ID = last.claims.ClaimsData.ID

\* an Account subject issued by an Operator seed through the resource
C11_Witness ==
    /\ ResCalled /\ last.err = "" /\ last.op = "Create"
    /\ ResSubTier = "Account" /\ ResIssTier = "Operator"
    /\ last.claims.ClaimsData.Subject = SubjectPublic("Account")

\* some signing key of the document is no seed, or a seed of another tier
BadEntry(tier, doc) ==
    \E i \in 1..Len(doc.keys) :
        \/ DecodeSeed(doc.keys[i].key).err /= ""
        \/ DecodeSeed(doc.keys[i].key).prefix /= tier

\* the errors Run reports for a signing key
DelegatedKeyErrors ==
    {"signing_key_error", "signing_key_decode_error", "signing_key_type_error"}

\* a call of Run that got as far as the signing keys of a well-formed document
FnReadKeys ==
    /\ FnReached /\ FnSubTier \in {"Operator", "Account"} /\ FnIssTier = "Operator"
    /\ resp.rev = "object" => (resp.args.exp = None /\ resp.args.nbf = None)
    /\ resp.args.nats /= None /\ resp.args.nats[1].wf

\* an operation of the resource that got as far as a well-formed document
ResReadKeys ==
    /\ ResCalled /\ ResSubTier \in {"Operator", "Account"} /\ ResIssTier = "Operator"
    /\ last.plan.Nats /= None /\ last.plan.Nats[1].wf

\* C12: for an Operator or Account subject, Run and UpdateJWT decode every
\* signing key of the extension data and compare its tier with the
\* subject's; one key that does not decode or is of another tier ends the
\* issuance with a signing-key error and no token.
C12_SigningKeysChecked ==
    /\ (FnReadKeys /\ BadEntry(FnSubTier, resp.args.nats[1])) =>
          resp.out.error \in DelegatedKeyErrors /\ resp.out.result = <<>>
    /\ (ResReadKeys /\ BadEntry(ResSubTier, last.plan.Nats[1])) =>
          last.err /= "" /\ last.claims = NoClaims

\* the signing keys in issued claims hold nothing that decodes as a seed
NoSeedIn(cl) ==
    /\ \A i \in 1..Len(cl.SigningKeys) : DecodeSeed(cl.SigningKeys[i]).err /= ""
    /\ \A i \in 1..Len(cl.AccountSigningKeys) :
          DecodeSeed(cl.AccountSigningKeys[i][1]).err /= ""

\* C13: every signing key in the payload of a token issued by Run or by
\* UpdateJWT is a public identifier, a seed having been replaced by the
\* public identifier derived from it.
C13_NoSeedInToken ==
    /\ resp.out.result /= <<>> =>
          /\ NoSeedIn(resp.out.claims)
          /\ Segments(resp.out.result)[2] = serialize(resp.out.claims)
    /\ (ResCalled /\ last.err = "") =>
          /\ NoSeedIn(last.claims)
          /\ Segments(state.data.Token)[2] = serialize(last.claims)

\* C14: a call repeated with the same input, at any clock and with `range`
\* in any order, gives the same token and ID, or the same error.
C14_PureFunction ==
    /\ resp.rev = "map" =>
          \A t \in 1..MaxTime : \A order \in RangeOrders(resp.args.sub, resp.args.nats) :
              /\ RunMap(resp.args, t, order).result = resp.out.result
              /\ RunMap(resp.args, t, order).error = resp.out.error
              /\ RunMap(resp.args, t, order).claims.ClaimsData.ID
                    = resp.out.claims.ClaimsData.ID
    /\ ResCalled =>
          \A t \in 1..MaxTime :
              /\ UpdateJWT(last.plan, t).err = last.err
              /\ last.err = "" =>
                    /\ UpdateJWT(last.plan, t).data.Token = state.data.Token
                    /\ UpdateJWT(last.plan, t).data.ID = state.data.ID

\* C17: the IssuedAt of a token issued by the map revision of Run or by
\* UpdateJWT is the iat supplied, whatever else is supplied, and the clock of
\* the issuance only when no iat is supplied.
C17_IssuedAtFromIat ==
    /\ (resp.rev = "map" /\ resp.out.result /= <<>>) =>
          resp.out.claims.ClaimsData.IssuedAt =
              IF resp.args.iat /= None THEN ParseInt(resp.args.iat[1]).n ELSE resp.t
    /\ (ResCalled /\ last.err = "") =>
          last.claims.ClaimsData.IssuedAt =
              IF last.plan.IssuedAt /= None THEN last.plan.IssuedAt[1] ELSE last.t

\* the type tag of a tier
TierTag(tier) ==
    CASE tier = "Operator" -> OperatorClaim
      [] tier = "Account"  -> AccountClaim
      [] tier = "User"     -> UserClaim
      [] OTHER             -> <<>>

\* C16: the type field in the payload of every token UpdateJWT produces is
\* the tag of the subject's tier.
C16_TypeTagOfSubjectTier ==
    (ResCalled /\ last.err = "") =>
        /\ last.claims.Type = TierTag(ResSubTier)
        /\ Segments(state.data.Token)[2] = serialize(last.claims)

\* the error of the first of exp, nbf, iat whose text is no integer
FirstBadTime ==
    IF resp.args.exp /= None /\ ParseInt(resp.args.exp[1]).err /= "" THEN "exp_error"
    ELSE IF resp.args.nbf /= None /\ ParseInt(resp.args.nbf[1]).err /= "" THEN "nbf_error"
    ELSE IF resp.args.iat /= None /\ ParseInt(resp.args.iat[1]).err /= "" THEN "iat_error"
    ELSE ""

\* a call of the map revision whose seeds, tiers and extension data are good
MapReachedTimes ==
    /\ resp.rev = "map" /\ FnReached
    /\ FnSubTier \in {"Operator", "Account", "User"}
    /\ FnIssTier = TableIssuer(FnSubTier)
    /\ resp.args.nats \in
          {None, Some(IF FnSubTier = "Operator" THEN DocOperatorKeys ELSE DocAccountKeys)}

\* C18: a call of Run given an exp, nbf or iat that is no base-10 integer
\* ends with the error of that field and no token; the value is never taken
\* as zero.
C18_MalformedTimeRejected ==
    (MapReachedTimes /\ FirstBadTime /= "") =>
        /\ resp.out.result = <<>>
        /\ resp.out.error = FirstBadTime

\* C19: a Read of the jwt resource leaves the stored id and token as the
\* state it read had them, and a Read that fails leaves the whole state.
\* (last.plan of a Read is the stored model the Read was given.)
C19_ReadKeepsToken ==
    last.op = "Read" =>
        /\ state.exists
        /\ state.data.ID = last.plan.ID
        /\ state.data.Token = last.plan.Token
        /\ last.err /= "" => state.data = last.plan

\* C15: a Create of the nkey resource for type Operator, Account or User
\* stores a seed of that tier, and Reads of the state it wrote leave every
\* attribute as Create stored it: the type asked for, and the subject,
\* public and private derived from the stored seed.
C15_NkeyReadKeepsCreate ==
    (nkey.exists /\ nkey.asked \in {"Operator", "Account", "User"}) =>
        /\ DecodeSeed(nkey.created.ID).prefix = nkey.asked
        /\ nkey.data.ID = nkey.created.ID
        /\ nkey.data.Type = nkey.asked
        /\ nkey.data.Subject = PublicKey(FromSeed(nkey.created.ID).kp)
        /\ nkey.data.Public = nkey.created.Public
        /\ nkey.data.Private = nkey.created.Private
====
